---- MODULE Spec2Model ----
(***************************************************************************)
(* Model of the async job orchestrator: the per-job LogBuffer (logs.rs),   *)
(* the slot table JobPoolState, the worker run_job_blocking and the        *)
(* coordinating loop JobPool::run_loop (jobs.rs).                          *)
(*                                                                         *)
(* Slot indices are the 0-based indices of the Rust Vec; slot i is         *)
(* jobs[i + 1] here.                                                       *)
(***************************************************************************)
EXTENDS Integers, Sequences, FiniteSets, TLC

(***************************************************************************)
(* Bounds of the model.                                                    *)
(***************************************************************************)
\* number of calls of JobPool::submit explored
MaxSubmissions == 6
\* number of LogBuffer appends explored in LogSpec
MaxAppends == 3

(***************************************************************************)
(* Program constants.                                                      *)
(***************************************************************************)
\* JobPoolState::new(4) in JobPool::start
max_jobs == 4
\* mpsc::channel(32), both channels
CHANNEL_CAPACITY == 32
\* logs.rs: const BLOCK_SIZE: usize = 64 * 1024
BLOCK_SIZE == 65536

(***************************************************************************)
(* Bytes.  A run [s, k] stands for the bytes of the string s repeated k    *)
(* times; a byte string is a sequence of runs.  Lit(s) is the literal s.   *)
(***************************************************************************)
Lit(s) == [s |-> s, k |-> 1]

Rep(s, k) == [s |-> s, k |-> k]

NBytes(run) == Len(run.s) * run.k

TRUNCATION_MSG == Lit("...[ TRUNCATED ]...\n")

AVAILABLE_SIZE == BLOCK_SIZE - NBytes(TRUNCATION_MSG)

LogLevels == {"DEBUG", "INFO", "WARNING", "ERROR"}

(***************************************************************************)
(* LogBuffer: data[..len] is kept as the sequence of the runs written.     *)
(***************************************************************************)
LogBufferNew == [data |-> <<>>, len |-> 0, full |-> FALSE]

advance_len(lb, amount) == [lb EXCEPT !.len = @ + amount]

write_bytes(lb, bytes) ==
    advance_len([lb EXCEPT !.data = Append(@, bytes)], NBytes(bytes))

\* a write that tests the room against the whole block
write_up_to_block(lb, buf) ==
    IF lb.full THEN [lb |-> lb, n |-> 0]
    ELSE IF lb.len + NBytes(buf) <= BLOCK_SIZE
         THEN [lb |-> write_bytes(lb, buf), n |-> NBytes(buf)]
         ELSE [lb |-> [write_bytes(lb, TRUNCATION_MSG) EXCEPT !.full = TRUE],
               n |-> 0]

\* impl std::io::Write for LogBuffer: write returns Ok(n); n is the result
write(lb, buf) ==
    IF lb.full THEN [lb |-> lb, n |-> 0]
    ELSE IF lb.len + NBytes(buf) <= AVAILABLE_SIZE
         THEN [lb |-> write_bytes(lb, buf), n |-> NBytes(buf)]
         ELSE [lb |-> [write_bytes(lb, TRUNCATION_MSG) EXCEPT !.full = TRUE],
               n |-> 0]

\* std::io::Write::write_all over write: nothing to do for an empty buffer,
\* Err(WriteZero) when write returns Ok(0), else the whole buffer is written
write_all(lb, buf) ==
    IF NBytes(buf) = 0 THEN [lb |-> lb, ok |-> TRUE]
    ELSE LET r == write(lb, buf)
         IN  [lb |-> r.lb, ok |-> r.n # 0]

\* std::io::Write::write_fmt: the formatter hands the pieces of the format
\* string and each argument's text to write_all one at a time, and stops at
\* the first error (r, the result of one write_all, is bound through a set
\* so that it is computed once)
RECURSIVE write_fmt(_, _)
write_fmt(lb, pieces) ==
    IF pieces = <<>> THEN [lb |-> lb, ok |-> TRUE]
    ELSE CHOOSE res \in
             {IF r.ok THEN write_fmt(r.lb, Tail(pieces)) ELSE r :
                 r \in {write_all(lb, Head(pieces))}} : TRUE

\* the buffers write_fmt hands to LogBuffer::write, in order: the non-empty
\* pieces up to and including the first one write answers with Ok(0)
RECURSIVE handed(_, _)
handed(lb, pieces) ==
    IF pieces = <<>> THEN <<>>
    ELSE IF NBytes(Head(pieces)) = 0 THEN handed(lb, Tail(pieces))
    ELSE CHOOSE hs \in
             {IF r.ok THEN <<Head(pieces)>> \o handed(r.lb, Tail(pieces))
              ELSE <<Head(pieces)>> :
                 r \in {write_all(lb, Head(pieces))}} : TRUE

\* the pieces of format_args!("[{}] {}\n", level, args)
LinePieces(level, args) ==
    <<Lit("["), Lit(level), Lit("] ")>> \o args \o <<Lit("\n")>>

\* LogBuffer::log: msg is one &str, written as one piece; the result of
\* write! is dropped
log(lb, level, msg) == write_fmt(lb, LinePieces(level, <<msg>>)).lb

\* LogBuffer::logf: args is a fmt::Arguments, a sequence of pieces
logf(lb, level, args) == write_fmt(lb, LinePieces(level, args)).lb

\* Display for LogBuffer: the runs of data[..len] (never non-UTF-8 here)
render(lb) == lb.data

(***************************************************************************)
(* Jobs.                                                                   *)
(***************************************************************************)
States == {"INIT", "QUEUED", "RUNNING", "SUCCEEDED", "FAILED"}

Echo(m) == [type |-> "echo", message |-> m, milliseconds |-> 0]

Sleep(ms) == [type |-> "sleep", message |-> "", milliseconds |-> ms]

\* the submissions the API hands to submit in this model
Submissions == {Echo("hello"), Sleep(50)}

\* text of chrono::Utc::now() in the "queued at" line (time is not modelled)
NowText == Lit("2026-01-01 00:00:00 UTC")

\* Job::new: the id is fresh (Ulid::new()), here the job's creation number
JobNew(job_submission, id) ==
    [id |-> id, submission |-> job_submission, state |-> "INIT",
     created_at |-> "now", started_at |-> "None", finished_at |-> "None",
     result |-> "", log |-> LogBufferNew]

(***************************************************************************)
(* JobCell in Option: None (taken by a worker), Some(Empty),               *)
(* Some(Occupied(arc)); arc names the shared job in heap.                  *)
(***************************************************************************)
CellNone == [tag |-> "None", arc |-> 0]

CellEmpty == [tag |-> "Empty", arc |-> 0]

CellOccupied(arc) == [tag |-> "Occupied", arc |-> arc]

NoIndex == [some |-> FALSE, i |-> 0]

SomeIndex(i) == [some |-> TRUE, i |-> i]

\* find_slot has not been called yet
NotCalled == [some |-> FALSE, i |-> -1]

\* the lowest index of a Some(Empty) slot; only used when there is one
FirstEmpty(js) ==
    CHOOSE i \in 0..(Len(js) - 1) :
        /\ js[i + 1].tag = "Empty"
        /\ \A k \in 0..(i - 1) : js[k + 1].tag # "Empty"

\* find_slot without the capacity test: a new slot for every job
find_slot_unbounded(js) ==
    [jobs |-> Append(js, CellEmpty), ret |-> SomeIndex(Len(js))]

\* find_slot that looks for an Empty slot before it adds one
find_slot_scans_first(js) ==
    IF \E i \in 1..Len(js) : js[i].tag = "Empty"
    THEN [jobs |-> js, ret |-> SomeIndex(FirstEmpty(js))]
    ELSE IF Len(js) < max_jobs
         THEN [jobs |-> Append(js, CellEmpty), ret |-> SomeIndex(Len(js))]
         ELSE [jobs |-> js, ret |-> NoIndex]

\* find_slot whose scan takes a slot that is in flight for a free one
find_slot_takes_in_flight(js) ==
    IF Len(js) < max_jobs
    THEN [jobs |-> Append(js, CellEmpty), ret |-> SomeIndex(Len(js))]
    ELSE IF \E i \in 1..Len(js) : js[i].tag \in {"Empty", "None"}
         THEN [jobs |-> js,
               ret |-> SomeIndex(CHOOSE i \in 0..(Len(js) - 1) :
                          /\ js[i + 1].tag \in {"Empty", "None"}
                          /\ \A k \in 0..(i - 1) :
                                js[k + 1].tag \notin {"Empty", "None"})]
         ELSE [jobs |-> js, ret |-> NoIndex]

\* JobPoolState::find_slot: the table after the call and the Option returned
find_slot(js) ==
    IF Len(js) < max_jobs
    THEN [jobs |-> Append(js, CellEmpty), ret |-> SomeIndex(Len(js))]
    ELSE IF \E i \in 1..Len(js) : js[i].tag = "Empty"
         THEN [jobs |-> js, ret |-> SomeIndex(FirstEmpty(js))]
         ELSE [jobs |-> js, ret |-> NoIndex]

\* fail_and_complete_job that archives the job without failing it
fail_and_complete_job_keeps_state(done, job, reason) == Append(done, job)

\* fail_and_complete_job that archives the failed job twice
fail_and_complete_job_twice(done, job, reason) ==
    LET failed == [job EXCEPT !.state = "FAILED", !.result = reason]
    IN  Append(Append(done, failed), failed)

\* JobPoolState::fail_and_complete_job: the archive after the call
fail_and_complete_job(done, job, reason) ==
    Append(done, [job EXCEPT !.state = "FAILED", !.result = reason])

\* run_job, the job: state QUEUED and the "queued at" line
queued_job(job) ==
    [job EXCEPT !.state = "QUEUED",
                !.log = logf(@, "INFO", <<Lit("queued at "), NowText>>)]

\* run_job, the conditions of its two debug_assert!
run_job_asserts(js, index) ==
    /\ index < Len(js)
    /\ js[index + 1] = CellEmpty

\* run_job that stores the cell and leaves it in the table for the worker
run_job_slots_keeps_cell(js, index, arc) ==
    LET stored == [js EXCEPT ![index + 1] = CellOccupied(arc)]
    IN  [jobs |-> stored, cell |-> stored[index + 1]]

\* run_job, the table: the cell is stored Occupied at index and taken out
\* at once, which leaves None; cell is what the worker is given
run_job_slots(js, index, arc) ==
    LET stored == [js EXCEPT ![index + 1] = CellOccupied(arc)]
    IN  [jobs |-> [stored EXCEPT ![index + 1] = CellNone],
         cell |-> stored[index + 1]]

\* a worker that marks the job SUCCEEDED in its first block
started_job_skips_running(job) ==
    [job EXCEPT !.state = "SUCCEEDED",
                !.log = logf(@, "INFO", <<Lit("job started")>>)]

\* a worker that writes a result as soon as it starts
started_job_writes_result(job) ==
    [job EXCEPT !.state = "RUNNING", !.result = "started",
                !.log = logf(@, "INFO", <<Lit("job started")>>)]

\* run_job_blocking, first locked block
started_job(job) ==
    [job EXCEPT !.state = "RUNNING",
                !.log = logf(@, "INFO", <<Lit("job started")>>)]

\* run_job_blocking, second locked block
finished_job(job) ==
    [job EXCEPT !.state = "SUCCEEDED",
                !.log = logf(@, "INFO", <<Lit("job finished")>>)]

\* finish_job that removes the slot of the job from the table
finish_job_removes_slot(st, job_index) ==
    [st EXCEPT !.jobs = SubSeq(@, 1, job_index)
                           \o SubSeq(@, job_index + 2, Len(@))]

\* JobPoolState::finish_job: it prints and returns; st is [jobs, completed]
finish_job(st, job_index) == st

\* the record a query gives for one job
JobView(job) ==
    [id |-> job.id, state |-> job.state, created_at |-> job.created_at,
     result |-> job.result, log_text |-> render(job.log)]

\* the jobs the slots of the table hold, in slot order; h is the heap
RECURSIVE SlotJobs(_, _)
SlotJobs(js, h) ==
    IF js = <<>> THEN <<>>
    ELSE (IF Head(js).tag = "Occupied" /\ Head(js).arc \in DOMAIN h
          THEN <<JobView(h[Head(js).arc])>> ELSE <<>>)
             \o SlotJobs(Tail(js), h)

\* JobPool::get_jobs, which api.rs calls: under the lock of the pool, the
\* jobs the table holds and the jobs of the archive; a job a worker has
\* taken out of its slot is not in reach of the pool
get_jobs(js, done, h) ==
    SlotJobs(js, h) \o [k \in 1..Len(done) |-> JobView(done[k])]

\* tokio mpsc send on a bounded channel: Err when the receiver is gone, else
\* the message is queued once there is room (Pending: the sender waits)
send(q, alive, msg) ==
    IF ~alive THEN [q |-> q, ret |-> "Err"]
    ELSE IF Len(q) < CHANNEL_CAPACITY
         THEN [q |-> Append(q, msg), ret |-> "Ok"]
         ELSE [q |-> q, ret |-> "Pending"]

(***************************************************************************)
(* State.                                                                  *)
(*   submission_q   messages in the submission channel                     *)
(*   completion_q   slot indices in the completion channel                 *)
(*   rx_alive       run_loop, which owns both receivers, is alive          *)
(*   jobs, completed, created   JobPoolState (created counts Job::new)      *)
(*   heap           the jobs behind an Arc<Mutex<Job>>, by id              *)
(*   worker         the spawn_blocking tasks: position, slot index, cell   *)
(*   calls          the results of the calls of submit made so far         *)
(*   submitted      the argument of the last call of submit                *)
(*   processed      the indices run_loop has passed to finish_job, in      *)
(*                  order (its "job completion processed" lines)           *)
(*   history        per job, the values its state field has taken          *)
(*   lb, call, appends   a LogBuffer of its own, the last append made to   *)
(*                  it and their number (LogSpec)                          *)
(*   writes         the buffers handed to lb's write so far, in order      *)
(*   found          what the last call of find_slot returned               *)
(*   assert_failed  a debug_assert! of run_job has met a false condition   *)
(***************************************************************************)
VARIABLES submission_q, completion_q, rx_alive, jobs, completed, created,
          heap, worker, calls, submitted, processed, history, lb, call,
          appends, writes, found, assert_failed

vars == <<submission_q, completion_q, rx_alive, jobs, completed, created,
          heap, worker, calls, submitted, processed, history, lb, call,
          appends, writes, found, assert_failed>>

poolvars == <<submission_q, completion_q, rx_alive, jobs, completed, created,
              heap, worker, calls, submitted, processed, history, found,
              assert_failed>>

logvars == <<lb, call, appends, writes>>

NoSubmission == [type |-> "", message |-> "", milliseconds |-> 0]

NoCall == [level |-> "", args |-> <<>>]

\* JobPool::start: empty channels, JobPoolState::new(4), run_loop spawned
Init ==
    /\ submission_q = <<>>
    /\ completion_q = <<>>
    /\ rx_alive = TRUE
    /\ jobs = <<>>
    /\ completed = <<>>
    /\ created = 0
    /\ heap = <<>>
    /\ worker = <<>>
    /\ calls = <<>>
    /\ submitted = NoSubmission
    /\ processed = <<>>
    /\ history = <<>>
    /\ lb = LogBufferNew
    /\ call = NoCall
    /\ appends = 0
    /\ writes = <<>>
    /\ found = NotCalled
    /\ assert_failed = FALSE

\* h with key k bound to v
Put(h, k, v) == [x \in DOMAIN h \cup {k} |-> IF x = k THEN v ELSE h[x]]

\* h without key k
Drop(h, k) == [x \in DOMAIN h \ {k} |-> h[x]]

\* a submit that refuses when the table is full and nothing is Empty
submit_checks_pool(q, alive, job) ==
    IF Len(jobs) >= max_jobs /\ \A i \in 1..Len(jobs) : jobs[i].tag # "Empty"
    THEN [q |-> q, ret |-> "JobQueueClosed"]
    ELSE LET r == send(q, alive, job)
         IN  [q |-> r.q,
              ret |-> IF r.ret = "Err" THEN "JobQueueClosed" ELSE r.ret]

\* JobPool::submit: send, with the send error mapped to JobQueueClosed
submit(q, alive, job) ==
    LET r == send(q, alive, job)
    IN  [q |-> r.q,
         ret |-> IF r.ret = "Err" THEN "JobQueueClosed" ELSE r.ret]

\* post_jobs calls pool.submit(req); the call returns once send is not Pending
Submit(job) ==
    /\ Len(calls) < MaxSubmissions
    /\ LET r == submit(submission_q, rx_alive, job)
       IN  /\ r.ret # "Pending"
           /\ submission_q' = r.q
           /\ calls' = Append(calls, r.ret)
           /\ submitted' = job
    /\ UNCHANGED <<completion_q, rx_alive, jobs, completed, created, heap,
                   worker, processed, history, logvars, found,
                   assert_failed>>

\* run_loop, first branch of select!: lock, handle_new_job, unlock. A panic
\* in run_job (a debug_assert! that fails in a build that has them, or the
\* index out of the table in any build) unwinds the run_loop task, which
\* drops both receivers
HandleNewJob ==
    /\ rx_alive
    /\ submission_q # <<>>
    /\ LET job_submission == Head(submission_q)
           newjob == JobNew(job_submission, created + 1)
           fs == find_slot(jobs)
       IN  /\ created' = created + 1
           /\ found' = fs.ret
           /\ IF ~fs.ret.some
              THEN /\ submission_q' = Tail(submission_q)
                   /\ completed' = fail_and_complete_job(
                                      completed, newjob,
                                      "pool full: job never queued")
                   /\ jobs' = fs.jobs
                   /\ history' = Append(history,
                          <<newjob.state, completed'[Len(completed')].state>>)
                   /\ UNCHANGED <<completion_q, rx_alive, heap, worker,
                                  assert_failed>>
              ELSE \E debug_assertions \in BOOLEAN :
                   LET held == run_job_asserts(fs.jobs, fs.ret.i)
                   IN  /\ assert_failed' = (assert_failed \/ ~held)
                       /\ IF \/ ~held /\ debug_assertions
                             \/ fs.ret.i >= Len(fs.jobs)
                          THEN /\ rx_alive' = FALSE
                               /\ submission_q' = <<>>
                               /\ completion_q' = <<>>
                               /\ jobs' = fs.jobs
                               /\ history' = Append(history,
                                                    <<newjob.state>>)
                               /\ UNCHANGED <<completed, heap, worker>>
                          ELSE LET job == queued_job(newjob)
                                   rs == run_job_slots(fs.jobs, fs.ret.i,
                                                       newjob.id)
                               IN  /\ submission_q' = Tail(submission_q)
                                   /\ heap' = Put(heap, newjob.id, job)
                                   /\ jobs' = rs.jobs
                                   /\ worker' = Put(worker, newjob.id,
                                          [pc |-> "spawned",
                                           index |-> fs.ret.i,
                                           cell |-> rs.cell])
                                   /\ history' = Append(history,
                                          <<newjob.state, job.state>>)
                                   /\ UNCHANGED <<completion_q, rx_alive,
                                                  completed>>
    /\ UNCHANGED <<calls, submitted, processed, logvars>>

\* a run_loop that returns once it has processed a completion
HandleCompletionThenReturn ==
    /\ rx_alive
    /\ completion_q # <<>>
    /\ rx_alive' = FALSE
    /\ submission_q' = <<>>
    /\ completion_q' = <<>>
    /\ processed' = Append(processed, Head(completion_q))
    /\ UNCHANGED <<jobs, completed, created, heap, worker, calls, submitted,
                   history, logvars, found, assert_failed>>

\* run_loop, second branch of select!: lock, finish_job, unlock
HandleCompletion ==
    /\ rx_alive
    /\ completion_q # <<>>
    /\ LET completed_job_index == Head(completion_q)
           st == finish_job([jobs |-> jobs, completed |-> completed],
                            completed_job_index)
       IN  /\ completion_q' = Tail(completion_q)
           /\ jobs' = st.jobs
           /\ completed' = st.completed
           /\ processed' = Append(processed, completed_job_index)
    /\ UNCHANGED <<submission_q, rx_alive, created, heap, worker, calls,
                   submitted, history, logvars, found,
                   assert_failed>>

\* run_job_blocking up to the end of its first locked block
WorkerStart(id) ==
    /\ id \in DOMAIN worker
    /\ worker[id].pc = "spawned"
    /\ worker[id].cell.tag = "Occupied"
    /\ LET arc == worker[id].cell.arc
           job == started_job(heap[arc])
       IN  /\ heap' = [heap EXCEPT ![arc] = job]
           /\ history' = [history EXCEPT ![arc] = Append(@, job.state)]
    /\ worker' = [worker EXCEPT ![id].pc = "running"]
    /\ UNCHANGED <<submission_q, completion_q, rx_alive, jobs, completed,
                   created, calls, submitted, processed, logvars, found,
                   assert_failed>>

\* run_job_blocking: the work (it only prints) and the second locked block
WorkerFinish(id) ==
    /\ id \in DOMAIN worker
    /\ worker[id].pc = "running"
    /\ LET arc == worker[id].cell.arc
           job == finished_job(heap[arc])
       IN  /\ heap' = [heap EXCEPT ![arc] = job]
           /\ history' = [history EXCEPT ![arc] = Append(@, job.state)]
    /\ worker' = [worker EXCEPT ![id].pc = "finished"]
    /\ UNCHANGED <<submission_q, completion_q, rx_alive, jobs, completed,
                   created, calls, submitted, processed, logvars, found,
                   assert_failed>>

\* a worker that sends its index and does not return
WorkerSendAgain(id) ==
    /\ id \in DOMAIN worker
    /\ worker[id].pc = "finished"
    /\ Len(completion_q) < max_jobs + 1
    /\ completion_q' = Append(completion_q, worker[id].index)
    /\ UNCHANGED <<submission_q, rx_alive, jobs, completed, created, heap,
                   worker, calls, submitted, processed, history, logvars, found,
                   assert_failed>>

\* a worker that returns without sending its index
WorkerNoSend(id) ==
    /\ id \in DOMAIN worker
    /\ worker[id].pc = "finished"
    /\ worker' = [worker EXCEPT ![id].pc = "done"]
    /\ heap' = Drop(heap, worker[id].cell.arc)
    /\ UNCHANGED <<submission_q, completion_q, rx_alive, jobs, completed,
                   created, calls, submitted, processed, history, logvars, found,
                   assert_failed>>

\* a worker that sets its slot Empty itself once it has sent its index
WorkerSendFreesSlot(id) ==
    /\ id \in DOMAIN worker
    /\ worker[id].pc = "finished"
    /\ LET r == send(completion_q, rx_alive, worker[id].index)
       IN  /\ r.ret # "Pending"
           /\ completion_q' = r.q
           /\ worker' = [worker EXCEPT
                           ![id].pc = IF r.ret = "Ok" THEN "done"
                                      ELSE "panicked"]
    /\ heap' = Drop(heap, worker[id].cell.arc)
    /\ jobs' = [jobs EXCEPT ![worker[id].index + 1] = CellEmpty]
    /\ UNCHANGED <<submission_q, rx_alive, completed, created, calls,
                   submitted, processed, history, logvars, found,
                   assert_failed>>

\* run_job_blocking: completion_tx.blocking_send(index).unwrap(), then the
\* function returns (or unwinds) and its Arc, the last one, is dropped
WorkerSend(id) ==
    /\ id \in DOMAIN worker
    /\ worker[id].pc = "finished"
    /\ LET r == send(completion_q, rx_alive, worker[id].index)
       IN  /\ r.ret # "Pending"
           /\ completion_q' = r.q
           /\ worker' = [worker EXCEPT
                           ![id].pc = IF r.ret = "Ok" THEN "done"
                                      ELSE "panicked"]
    /\ heap' = Drop(heap, worker[id].cell.arc)
    /\ UNCHANGED <<submission_q, rx_alive, jobs, completed, created, calls,
                   submitted, processed, history, logvars, found,
                   assert_failed>>

\* the runtime goes away: the run_loop task is dropped at its select!, and
\* both receivers with it, which closes the channels and drops what they hold
Shutdown ==
    /\ rx_alive
    /\ rx_alive' = FALSE
    /\ submission_q' = <<>>
    /\ completion_q' = <<>>
    /\ UNCHANGED <<jobs, completed, created, heap, worker, calls, submitted,
                   processed, history, logvars, found,
                   assert_failed>>

JobIds == 1..MaxSubmissions

Next ==
    \/ \E job \in Submissions : Submit(job)
    \/ HandleNewJob
    \/ HandleCompletion
    \/ \E id \in JobIds : WorkerStart(id)
    \/ \E id \in JobIds : WorkerFinish(id)
    \/ \E id \in JobIds : WorkerSend(id)

Spec == Init /\ [][Next]_vars

\* the same, with the runtime allowed to go away
NextShutdown == Next \/ Shutdown

ShutdownSpec == Init /\ [][NextShutdown]_vars

(***************************************************************************)
(* A LogBuffer on its own: appends of lines through log and logf.          *)
(***************************************************************************)
\* the &str messages handed to log: short, empty, and long ones around the
\* room a fresh buffer has for the message of a line
LogMessages ==
    {Lit("hello"), Lit(""), Rep("x", 30000), Rep("x", AVAILABLE_SIZE - 11),
     Rep("x", AVAILABLE_SIZE - 8), Rep("x", AVAILABLE_SIZE - 7),
     Rep("x", AVAILABLE_SIZE)}

\* the fmt::Arguments handed to logf, as their pieces
LogArguments ==
    {<<Lit("job started")>>, <<Lit("queued at "), NowText>>,
     <<Lit("read "), Rep("y", 40000), Lit(" bytes")>>}

\* job.log.log(level, msg)
Log(level, msg) ==
    /\ appends < MaxAppends
    /\ lb' = log(lb, level, msg)
    /\ writes' = writes \o handed(lb, LinePieces(level, <<msg>>))
    /\ call' = [level |-> level, args |-> <<msg>>]
    /\ appends' = appends + 1
    /\ UNCHANGED poolvars

\* job.log.logf(level, args)
Logf(level, args) ==
    /\ appends < MaxAppends
    /\ lb' = logf(lb, level, args)
    /\ writes' = writes \o handed(lb, LinePieces(level, args))
    /\ call' = [level |-> level, args |-> args]
    /\ appends' = appends + 1
    /\ UNCHANGED poolvars

LogNext ==
    \/ \E level \in LogLevels, msg \in LogMessages : Log(level, msg)
    \/ \E level \in LogLevels, args \in LogArguments : Logf(level, args)

LogSpec == Init /\ [][LogNext]_vars

(***************************************************************************)
(* The same LogBuffer, with direct calls of its io::Write::write as well.  *)
(***************************************************************************)
\* the buffers handed to write: short, empty, and ones around the room
WriteBuffers ==
    {Lit("abc"), Lit(""), Rep("z", 40000), Rep("z", AVAILABLE_SIZE - 3),
     Rep("z", AVAILABLE_SIZE), Rep("z", AVAILABLE_SIZE + 1)}

\* lb.write(buf); the count returned is dropped
Write(buf) ==
    /\ appends < MaxAppends
    /\ lb' = write(lb, buf).lb
    /\ writes' = Append(writes, buf)
    /\ appends' = appends + 1
    /\ UNCHANGED <<call, poolvars>>

WriteNext ==
    \/ \E buf \in WriteBuffers : Write(buf)
    \/ LogNext

WriteSpec == Init /\ [][WriteNext]_vars

(***************************************************************************)
(* Helpers of the properties.                                              *)
(***************************************************************************)
Terminal == {"SUCCEEDED", "FAILED"}

Last(s) == s[Len(s)]

IsPrefix(s, t) == Len(s) <= Len(t) /\ SubSeq(t, 1, Len(s)) = s

\* number of places of the sequence s that hold x
Count(x, s) == Cardinality({k \in 1..Len(s) : s[k] = x})

\* every job there is: behind an Arc, or in the archive
LiveJobs ==
    {heap[id] : id \in DOMAIN heap}
        \cup {completed[k] : k \in 1..Len(completed)}

\* the jobs that are QUEUED or RUNNING
ActiveJobs == {job \in LiveJobs : job.state \in {"QUEUED", "RUNNING"}}

\* the table holds max_jobs slots and none is Empty
PoolFull ==
    /\ Len(jobs) >= max_jobs
    /\ \A i \in 1..Len(jobs) : jobs[i].tag # "Empty"

\* this step is run_loop taking a submission off the channel
TakesSubmission ==
    /\ rx_alive
    /\ submission_q # <<>>
    /\ submission_q' = Tail(submission_q)

\* this step is run_loop taking an index off the completion channel
TakesCompletion ==
    /\ rx_alive
    /\ completion_q # <<>>
    /\ completion_q' = Tail(completion_q)

PoolFullReason == "pool full: job never queued"

(***************************************************************************)
(* C1: in every reachable state at most max_jobs jobs are QUEUED or        *)
(* RUNNING.                                                                *)
(***************************************************************************)
C1_ActiveJobsBounded == Cardinality(ActiveJobs) <= max_jobs

\* max_jobs jobs are active at once and a further submission was refused
C1_Witness ==
    /\ Cardinality(ActiveJobs) = max_jobs
    /\ completed # <<>>

(***************************************************************************)
(* C2: when run_loop handles a submission while the table holds max_jobs   *)
(* slots and none is Empty, the new job is appended to the archive FAILED  *)
(* with result "pool full: job never queued", its state was only ever INIT *)
(* and FAILED, no worker is dispatched and the table is unchanged.         *)
(***************************************************************************)
C2_PoolFullRejects ==
    [][(TakesSubmission /\ PoolFull) =>
          /\ Len(completed') = Len(completed) + 1
          /\ SubSeq(completed', 1, Len(completed)) = completed
          /\ LET job == Last(completed')
             IN  /\ job.id = created + 1
                 /\ job.submission = Head(submission_q)
                 /\ job.state = "FAILED"
                 /\ job.result = PoolFullReason
                 /\ history'[job.id] = <<"INIT", "FAILED">>
          /\ jobs' = jobs
          /\ worker' = worker
          /\ heap' = heap
          /\ completion_q' = completion_q]_vars

\* a job refused for a full pool is in the archive
C2_Witness ==
    /\ PoolFull
    /\ \E k \in 1..Len(completed) :
          /\ completed[k].state = "FAILED"
          /\ completed[k].result = PoolFullReason
          /\ completed[k].id \notin DOMAIN worker

(***************************************************************************)
(* C3: the states a job takes are a prefix of INIT, QUEUED, RUNNING,       *)
(* SUCCEEDED or FAILED for a job given to a worker, and a prefix of INIT,  *)
(* FAILED for a job refused; so nothing is skipped and nothing follows a   *)
(* terminal state.                                                         *)
(***************************************************************************)
AcceptedChains ==
    {<<"INIT", "QUEUED", "RUNNING", "SUCCEEDED">>,
     <<"INIT", "QUEUED", "RUNNING", "FAILED">>}

RejectedChain == <<"INIT", "FAILED">>

C3_LifecycleOrder ==
    /\ \A id \in DOMAIN history :
          /\ history[id] # <<>>
          /\ IF id \in DOMAIN worker
             THEN \E chain \in AcceptedChains : IsPrefix(history[id], chain)
             ELSE IsPrefix(history[id], RejectedChain)
    /\ \A job \in LiveJobs : job.state = Last(history[job.id])

\* one job went the whole way to SUCCEEDED and another was refused
C3_Witness ==
    \E a, b \in DOMAIN history :
        /\ history[a] = <<"INIT", "QUEUED", "RUNNING", "SUCCEEDED">>
        /\ history[b] = <<"INIT", "FAILED">>

(***************************************************************************)
(* C4: after run_loop has processed the completion signal of slot i, that  *)
(* is after finish_job(i), slot i is Empty and the job that ran in slot i  *)
(* is in the archive in a terminal state.  finish_job only prints, so      *)
(* this fails.                                                             *)
(***************************************************************************)
\* the jobs whose worker was given slot i and has sent its signal
RanIn(i) ==
    {id \in DOMAIN worker : worker[id].index = i /\ worker[id].pc = "done"}

C4_FinishReclaimsSlot ==
    [][TakesCompletion =>
          LET i == Head(completion_q)
          IN  /\ i + 1 \in DOMAIN jobs'
              /\ jobs'[i + 1] = CellEmpty
              /\ \E id \in RanIn(i) : \E k \in 1..Len(completed') :
                    /\ completed'[k].id = id
                    /\ completed'[k].state \in Terminal]_vars

(***************************************************************************)
(* C5: once the job of slot i has completed and its signal was processed,  *)
(* a submission handled while the table holds max_jobs slots is queued     *)
(* and dispatched with such a slot index, not refused.  Slots are never    *)
(* reclaimed (C4), so this fails.                                          *)
(***************************************************************************)
\* the slots whose every dispatched job has had its completion processed
FreedSlots ==
    {i \in 0..(Len(jobs) - 1) :
        /\ Count(i, processed) >= 1
        /\ Count(i, processed) =
               Cardinality({id \in DOMAIN worker : worker[id].index = i})}

C5_FreedSlotReused ==
    [][(TakesSubmission /\ Len(jobs) = max_jobs /\ FreedSlots # {}) =>
          /\ created + 1 \in DOMAIN worker'
          /\ worker'[created + 1].index \in FreedSlots
          /\ history'[created + 1] = <<"INIT", "QUEUED">>
          /\ completed' = completed]_vars

(***************************************************************************)
(* C6: a worker sends its slot index exactly once, after its job is        *)
(* terminal: before the send there is no signal for its slot, after it     *)
(* there is exactly one (in the channel or processed); the signals ever    *)
(* sent are as many as the workers that have sent, so a refused job has    *)
(* none.                                                                   *)
(***************************************************************************)
\* the signals sent so far for slot i
Signals(i) == Count(i, completion_q) + Count(i, processed)

C6_SignalOncePerWorker ==
    /\ \A id \in DOMAIN worker :
          /\ worker[id].pc \in {"spawned", "running", "finished"}
                => Signals(worker[id].index) = 0
          /\ worker[id].pc = "done"
                => /\ Signals(worker[id].index) = 1
                   /\ Last(history[id]) \in Terminal
    /\ Len(completion_q) + Len(processed) =
           Cardinality({id \in DOMAIN worker : worker[id].pc = "done"})

\* one worker has sent its signal, another has not yet, and a job was refused
C6_Witness ==
    /\ \E id \in DOMAIN worker :
          worker[id].pc = "done" /\ Signals(worker[id].index) = 1
    /\ \E id \in DOMAIN worker : worker[id].pc = "finished"
    /\ \E id \in DOMAIN history : id \notin DOMAIN worker

(***************************************************************************)
(* C7: under fair scheduling every job given to a worker reaches a         *)
(* terminal state and its completion signal is processed by run_loop:      *)
(* again and again every job dispatched so far is completed.  A job stays  *)
(* dispatched and stays completed, so this gives, for each job,            *)
(* dispatched ~> completed.                                                *)
(*                                                                         *)
(* Fairness: a worker is a thread of the blocking pool and run_loop's      *)
(* select! takes a branch that is ready; a step of either, once enabled,   *)
(* stays enabled until taken, so their fair scheduling gives weak fairness *)
(* of SystemStep.  Nothing is assumed of the callers of submit.            *)
(***************************************************************************)
\* a step of run_loop or of a worker
SystemStep ==
    \/ HandleNewJob
    \/ HandleCompletion
    \/ \E id \in JobIds : WorkerStart(id) \/ WorkerFinish(id) \/ WorkerSend(id)

FairSpec == Spec /\ WF_vars(SystemStep)

\* the signal of job id has been processed, the job being terminal
Completed(id) ==
    /\ id \in DOMAIN worker
    /\ Last(history[id]) \in Terminal
    /\ Count(worker[id].index, processed) >= 1

C7_AcceptedJobsComplete == []<>(\A id \in DOMAIN worker : Completed(id))

\* every slot was used, and every job given to a worker was completed
C7_Witness ==
    /\ Cardinality(DOMAIN worker) = max_jobs
    /\ \A id \in DOMAIN worker : Completed(id)

(***************************************************************************)
(* C8: an Echo job given to a worker, whenever SUCCEEDED, has its message  *)
(* as result, and its log holds the INFO line "queued at ..", later the    *)
(* INFO line "job started" and later the INFO line "job finished".         *)
(* run_job_blocking does no work and never writes result, so this fails.   *)
(***************************************************************************)
\* a line of the given level starts at place k of data, its text starting
\* with first
LineAt(data, k, level, first) ==
    /\ k + 3 <= Len(data)
    /\ (k = 1 \/ data[k - 1] = Lit("\n"))
    /\ data[k] = Lit("[")
    /\ data[k + 1] = Lit(level)
    /\ data[k + 2] = Lit("] ")
    /\ data[k + 3] = Lit(first)

\* the same, the text being exactly text
WholeLineAt(data, k, level, text) ==
    /\ LineAt(data, k, level, text)
    /\ k + 4 <= Len(data)
    /\ data[k + 4] = Lit("\n")

EchoLogLines(data) ==
    \E q, s, f \in 1..Len(data) :
        /\ q < s
        /\ s < f
        /\ LineAt(data, q, "INFO", "queued at ")
        /\ WholeLineAt(data, s, "INFO", "job started")
        /\ WholeLineAt(data, f, "INFO", "job finished")

C8_EchoResultAndLog ==
    \A id \in DOMAIN heap :
        (heap[id].submission.type = "echo" /\ heap[id].state = "SUCCEEDED")
            => /\ heap[id].result = heap[id].submission.message
               /\ EchoLogLines(render(heap[id].log))

\* the part of C8 about the log alone
C8_EchoLogOnly ==
    \A id \in DOMAIN heap :
        (heap[id].submission.type = "echo" /\ heap[id].state = "SUCCEEDED")
            => EchoLogLines(render(heap[id].log))

(***************************************************************************)
(* C9: a call of submit returns JobQueueClosed exactly when the receiver   *)
(* of the submission channel is gone, and then queues nothing; otherwise   *)
(* it returns Ok and has put its argument at the back of the channel, and  *)
(* touches nothing of the pool, whatever the table holds.  While run_loop  *)
(* lives every job it made or will make, the refused ones included, was    *)
(* reported Ok: the Ok calls are as many as the jobs made plus the         *)
(* submissions still queued.                                               *)
(***************************************************************************)
OkCalls(rets) == Count("Ok", rets)

C9_SubmitResult ==
    [][/\ Len(calls') = Len(calls) + 1 =>
            /\ Last(calls') \in {"Ok", "JobQueueClosed"}
            /\ Last(calls') = "JobQueueClosed" <=> ~rx_alive
            /\ Last(calls') = "Ok"
                  => submission_q' = Append(submission_q, submitted')
            /\ Last(calls') = "JobQueueClosed" => submission_q' = submission_q
            /\ UNCHANGED <<jobs, completed, heap, worker, history>>
       /\ rx_alive' => OkCalls(calls') = created' + Len(submission_q')
       /\ \A k \in 1..Len(completed') :
              completed'[k].id <= OkCalls(calls')]_vars

\* a submission reported Ok was refused for a full pool, and a call made
\* after the receiver went away returned JobQueueClosed
C9_Witness ==
    /\ ~rx_alive
    /\ calls # <<>>
    /\ Last(calls) = "JobQueueClosed"
    /\ \E k \in 1..Len(completed) :
          /\ completed[k].result = PoolFullReason
          /\ calls[completed[k].id] = "Ok"

(***************************************************************************)
(* C10: an append of the line "[LEVEL] message\n" is all-or-marker: if the *)
(* whole line fits in what is left of AVAILABLE_SIZE the content becomes   *)
(* the old content followed by the line; otherwise it becomes the old      *)
(* content followed by one truncation marker and nothing of the line, and  *)
(* the buffer is full.  The marker is written at most once, full is never  *)
(* reset, and an append on a full buffer changes nothing.                  *)
(* write!/write_fmt hand the line to write piece by piece, so the pieces   *)
(* that fit are written before the marker, and this fails.                 *)
(***************************************************************************)
\* the bytes of a sequence of pieces: the empty pieces are no bytes
Bytes(pieces) == SelectSeq(pieces, LAMBDA p : NBytes(p) > 0)

RECURSIVE Total(_)
Total(pieces) ==
    IF pieces = <<>> THEN 0 ELSE NBytes(Head(pieces)) + Total(Tail(pieces))

\* this step is an append of a line to lb, the line being call'
AppendsLine == appends' = appends + 1

\* what holds of every append, whether the line fits or not
AppendCommon ==
    /\ lb.full => lb' = lb
    /\ lb.full => lb'.full
    /\ Count(TRUNCATION_MSG, lb'.data) <= 1
    /\ lb'.len = Total(lb'.data)
    /\ LET line == LinePieces(call'.level, call'.args)
       IN  (~lb.full /\ lb.len + Total(line) <= AVAILABLE_SIZE)
              => /\ lb'.data = lb.data \o Bytes(line)
                 /\ ~lb'.full

C10_LineAllOrMarker ==
    [][AppendsLine =>
          /\ AppendCommon
          /\ LET line == LinePieces(call'.level, call'.args)
             IN  (~lb.full /\ lb.len + Total(line) > AVAILABLE_SIZE)
                    => /\ lb'.data = Append(lb.data, TRUNCATION_MSG)
                       /\ lb'.full]_vars

\* what the code does: the leading pieces of the line that fit are written,
\* then the marker
LogPiecesAllOrMarker ==
    [][AppendsLine =>
          /\ AppendCommon
          /\ LET line == LinePieces(call'.level, call'.args)
             IN  (~lb.full /\ lb.len + Total(line) > AVAILABLE_SIZE)
                    => \E k \in 0..(Len(line) - 1) :
                          /\ lb.len + Total(SubSeq(line, 1, k))
                                <= AVAILABLE_SIZE
                          /\ lb.len + Total(SubSeq(line, 1, k + 1))
                                > AVAILABLE_SIZE
                          /\ lb'.data = (lb.data \o Bytes(SubSeq(line, 1, k)))
                                           \o <<TRUNCATION_MSG>>
                          /\ lb'.full]_vars

(***************************************************************************)
(* C11: the LogBuffer under any sequence of writes.                        *)
(***************************************************************************)
\* the longest prefix of the buffers ws that fits in room bytes
RECURSIVE Fitting(_, _)
Fitting(ws, room) ==
    IF ws = <<>> THEN <<>>
    ELSE IF NBytes(Head(ws)) > room THEN <<>>
    ELSE <<Head(ws)>> \o Fitting(Tail(ws), room - NBytes(Head(ws)))

Snapshot == get_jobs(jobs, completed, heap)

Cells == {CellNone, CellEmpty, CellOccupied(1)}

\* the tables of at most max_jobs slots
Tables == UNION {[1..n -> Cells] : n \in 0..max_jobs}

\* a pool whose table is any of them, the job of the Occupied cells queued
FindSlotInit ==
    /\ jobs \in Tables
    /\ heap = [id \in {1} |-> queued_job(JobNew(Echo("hello"), 1))]
    /\ created = 1
    /\ history = <<<<"INIT", "QUEUED">>>>
    /\ submission_q = <<>>
    /\ completion_q = <<>>
    /\ rx_alive = TRUE
    /\ completed = <<>>
    /\ worker = <<>>
    /\ calls = <<>>
    /\ submitted = NoSubmission
    /\ processed = <<>>
    /\ lb = LogBufferNew
    /\ call = NoCall
    /\ appends = 0
    /\ writes = <<>>
    /\ found = NotCalled
    /\ assert_failed = FALSE

\* self.find_slot()
FindSlot ==
    /\ LET fs == find_slot(jobs)
       IN  /\ jobs' = fs.jobs
           /\ found' = fs.ret
    /\ UNCHANGED <<submission_q, completion_q, rx_alive, completed, created,
                   heap, worker, calls, submitted, processed, history,
                   logvars, assert_failed>>

FindSlotSpec == FindSlotInit /\ [][FindSlot]_vars

\* C13: with fewer than max_jobs slots find_slot appends an Empty slot and
\* returns its index, the previous number of slots, even if a lower slot is
\* Empty; with max_jobs slots it leaves the table as it is and returns the
\* lowest index of an Empty slot, passing over Occupied and in-flight ones,
\* and returns none exactly when no slot is Empty
C13_FindSlot ==
    [][IF Len(jobs) < max_jobs
       THEN /\ found' = SomeIndex(Len(jobs))
            /\ jobs' = Append(jobs, CellEmpty)
       ELSE /\ jobs' = jobs
            /\ found'.some <=> (\E i \in 1..Len(jobs) : jobs[i] = CellEmpty)
            /\ ~found'.some => found' = NoIndex
            /\ found'.some =>
                  /\ found'.i \in 0..(Len(jobs) - 1)
                  /\ jobs[found'.i + 1] = CellEmpty
                  /\ \A k \in 1..found'.i : jobs[k] # CellEmpty]_vars

\* a call on a full table has passed over an in-flight and an Occupied slot
\* and returned the Empty one after them
C13_Witness ==
    /\ Len(jobs) = max_jobs
    /\ found = SomeIndex(2)
    /\ jobs[1] = CellNone
    /\ jobs[2] = CellOccupied(1)
    /\ jobs[3] = CellEmpty

(***************************************************************************)
(* C14: the shape of the slot table.                                       *)
(***************************************************************************)
\* at most max_jobs slots, each Empty, Occupied by a job, or in flight
SlotTableOK ==
    /\ Len(jobs) <= max_jobs
    /\ \A i \in 1..Len(jobs) :
          jobs[i] \in {CellNone, CellEmpty}
                         \cup {CellOccupied(id) : id \in JobIds}

\* C14: in every reachable state the table holds at most max_jobs slots and
\* every slot is exactly one of Empty, Occupied and InFlight; the number of
\* slots never goes down
C14_SlotTableShape ==
    /\ SlotTableOK
    /\ [][SlotTableOK' /\ Len(jobs') >= Len(jobs)]_vars

\* the table is at max_jobs slots, find_slot has been called on it since,
\* and a completion has been processed
C14_Witness ==
    /\ Len(jobs) = max_jobs
    /\ found = NoIndex
    /\ processed # <<>>

(***************************************************************************)
(* C15: timestamps.                                                        *)
(***************************************************************************)
\* the job has been RUNNING, now or before
WasRunning(job) ==
    \E k \in 1..Len(history[job.id]) : history[job.id][k] = "RUNNING"

\* C15: a job that is or has been RUNNING has started_at set, a terminal
\* job has finished_at set, and a job in INIT or QUEUED has neither
C15_Timestamps ==
    \A job \in LiveJobs :
        /\ WasRunning(job) => job.started_at # "None"
        /\ job.state \in Terminal => job.finished_at # "None"
        /\ job.state \in {"INIT", "QUEUED"} =>
              /\ job.started_at = "None"
              /\ job.finished_at = "None"

\* what the code does: no job ever has either timestamp
TimestampsNeverSet ==
    \A job \in LiveJobs :
        /\ job.started_at = "None"
        /\ job.finished_at = "None"

(***************************************************************************)
(* C16: results.                                                           *)
(***************************************************************************)
\* C16: a job in INIT, QUEUED or RUNNING has an empty result; the result of
\* a job is written only in the step that makes the job terminal, and the
\* result of an archived job is not written again
C16_ResultOnlyWhenTerminal ==
    [][/\ \A job \in LiveJobs' : job.state \notin Terminal => job.result = ""
       /\ \A id \in DOMAIN heap \cap DOMAIN heap' :
             heap'[id].result # heap[id].result =>
                /\ heap[id].state \notin Terminal
                /\ heap'[id].state \in Terminal
       /\ \A k \in 1..Len(completed) :
             /\ k <= Len(completed')
             /\ completed'[k].result = completed[k].result]_vars

\* a job was given its result in the step that failed it, while another job
\* is RUNNING and a third has SUCCEEDED
C16_Witness ==
    /\ \E k \in 1..Len(completed) :
          completed[k].state = "FAILED" /\ completed[k].result # ""
    /\ \E id \in DOMAIN heap : heap[id].state = "RUNNING"
    /\ \E id \in DOMAIN heap : heap[id].state = "SUCCEEDED"

(***************************************************************************)
(* C17: the coordinator and the lock of the table.                         *)
(***************************************************************************)
\* this step is a worker moving on in run_job_blocking
WorkerStep ==
    \E id \in DOMAIN worker :
        /\ id \in DOMAIN worker'
        /\ worker'[id].pc # worker[id].pc

Unsent ==
    {id \in DOMAIN worker : worker[id].pc \in {"spawned", "running",
                                               "finished"}}

\* C18: the completion signals pending in the channel and the workers that
\* have not sent yet are at most max_jobs together, which is less than the
\* capacity of the channel; run_loop, which owns the receiver, is alive, so
\* the send of a worker that has finished succeeds at once and no worker's
\* unwrap has panicked
C18_SendNeverBlocks ==
    /\ Len(completion_q) + Cardinality(Unsent) <= max_jobs
    /\ max_jobs < CHANNEL_CAPACITY
    /\ rx_alive
    /\ \A id \in DOMAIN worker :
          /\ worker[id].pc # "panicked"
          /\ worker[id].pc = "finished" =>
                send(completion_q, rx_alive, worker[id].index).ret = "Ok"

\* max_jobs workers at once: signals wait in the channel while others have
\* not sent, and a completion has been processed
C18_Witness ==
    /\ Len(completion_q) + Cardinality(Unsent) = max_jobs
    /\ Len(completion_q) >= 2
    /\ \E id \in DOMAIN worker : worker[id].pc = "finished"
    /\ \E id \in DOMAIN worker : worker[id].pc = "running"

(***************************************************************************)
(* C19: slot indices are not shared.                                       *)
(***************************************************************************)
\* the completion of worker id has not been processed yet
Unprocessed(id) ==
    \/ id \in Unsent
    \/ \E k \in 1..Len(completion_q) : completion_q[k] = worker[id].index

\* C19: the debug assertions of run_job have always held (the index in the
\* table, the slot Empty), and no call of it went out of the table; the
\* slot of a worker whose completion is not processed yet is in flight; no
\* two such workers have the same index; every signal in the completion
\* channel names a slot that is in flight
C19_SlotIndexUnshared ==
    /\ ~assert_failed
    /\ rx_alive
    /\ \A id \in DOMAIN worker :
          Unprocessed(id) =>
             /\ worker[id].index < Len(jobs)
             /\ jobs[worker[id].index + 1] = CellNone
    /\ \A a, b \in DOMAIN worker :
          (a # b /\ Unprocessed(a) /\ Unprocessed(b)) =>
             worker[a].index # worker[b].index
    /\ \A k \in 1..Len(completion_q) :
          /\ completion_q[k] < Len(jobs)
          /\ jobs[completion_q[k] + 1] = CellNone

\* run_job has been called for every slot, on appended slots, and find_slot
\* has since been called on the full table; signals are waiting
C19_Witness ==
    /\ Cardinality(DOMAIN worker) = max_jobs
    /\ found = NoIndex
    /\ completion_q # <<>>
    /\ Unsent # {}

(***************************************************************************)
(* C20: the archive.                                                       *)
(***************************************************************************)
\* C20: the archive only grows at its end; it holds terminal jobs only and
\* no job twice; an archived job is never changed or removed, and is held
\* neither by a slot nor by a worker
C20_ArchiveAppendOnly ==
    [][/\ IsPrefix(completed, completed')
       /\ \A k \in 1..Len(completed') :
             /\ completed'[k].state \in Terminal
             /\ completed'[k].id \notin DOMAIN heap'
             /\ \A i \in 1..Len(jobs') :
                   jobs'[i] # CellOccupied(completed'[k].id)
             /\ \A n \in 1..Len(completed') :
                   completed'[n].id = completed'[k].id => n = k]_vars

\* two jobs are archived while others are with their workers
C20_Witness ==
    /\ Len(completed) >= 2
    /\ \E id \in DOMAIN heap : heap[id].state = "RUNNING"

====
